---- MODULE Spec2Model ----
(***************************************************************************)
(* The ring zipper of src/src/zipper.rs: two stacks, `forward` (whose      *)
(* front is the focus) and `backward`, with wrapping steps, refocus and    *)
(* the two resets.                                                         *)
(*                                                                         *)
(* The zipper only moves its elements between the two VecDeques; it never  *)
(* copies or compares them.  An element is therefore identified by its     *)
(* position in the collected sequence: the stacks hold positions 1..n and  *)
(* orig[i] is the value of the element at position i.  A predicate sees    *)
(* the value only, so two elements of equal value are indistinguishable    *)
(* to it.                                                                  *)
(***************************************************************************)
EXTENDS Integers, Sequences, FiniteSets, TLC

\* longest collected sequence
MaxLen == 4
\* number of distinct element values
NumValues == 2

Values == 1..NumValues

\* longest argument list built
MaxArgs == 3
\* number of distinct argument strings
NumArgValues == 2

ArgValues == 1..NumArgValues

\* Option::None of focus()
None == 0

Original == "Original"
Reverse == "Reverse"
SequenceDirection == {Original, Reverse}

BoundedSeq(S, n) == UNION {[1..k -> S] : k \in 0..n}

Range(s) == {s[i] : i \in DOMAIN s}

\* the multiset of the elements of a sequence
SeqToBag(s) == [e \in Range(s) |-> Cardinality({i \in DOMAIN s : s[i] = e})]

VARIABLES
    forward,    \* Zipper.forward: front is the focused element
    backward,   \* Zipper.backward
    panicked,   \* an unwrap() on None was executed
    orig,       \* the collected sequence: orig[i] is the value at position i
    last,       \* the last public operation, its arguments and the zipper it consumed
    hist,       \* the operation before the last one, and the current run of steps
    its,        \* the ZipperIters that borrow the zipper
    cmd,        \* the UwsmCommand being built
    cmdLast     \* the last builder call, its argument and the args before it

vars == <<forward, backward, panicked, orig, last, hist, its, cmd, cmdLast>>

\* a Zipper value; panicked marks a value never produced because the call unwound
Zipper(f, b, x) == [forward |-> f, backward |-> b, panicked |-> x]

\* mutant: the drained element is pushed to the back instead of the front
push_and_yield_Back(n, t) == Append(n, t)

push_and_yield(n, t) == <<t>> \o n

\* mutant: collected items are pushed to the front
push_back_and_yield_Front(n, t) == <<t>> \o n

push_back_and_yield(n, t) == Append(n, t)

\* pl.drain(..).fold(nl, push_and_yield): the new nl; pl is left empty
RECURSIVE drain_fold(_, _)
drain_fold(nl, pl) ==
    IF pl = <<>> THEN nl
    ELSE drain_fold(push_and_yield(nl, Head(pl)), Tail(pl))

\* mutant: the drained stack is appended in drain order instead of reversed
reset_PushBack(nl, pl) == [nl |-> nl \o pl, pl |-> <<>>]

reset(nl, pl) == [nl |-> drain_fold(nl, pl), pl |-> <<>>]

\* mutant: the popped element is dropped instead of pushed
pop_push_Drop(pop, push) ==
    IF pop = <<>>
    THEN [pop |-> pop, push |-> push, panicked |-> TRUE]
    ELSE [pop |-> Tail(pop), push |-> push, panicked |-> FALSE]

\* mutant: the popped element is pushed to the back of the other stack
pop_push_Back(pop, push) ==
    IF pop = <<>>
    THEN [pop |-> pop, push |-> push, panicked |-> TRUE]
    ELSE [pop |-> Tail(pop), push |-> Append(push, Head(pop)), panicked |-> FALSE]

\* push.push_front(pop.pop_front().unwrap())
pop_push(pop, push) ==
    IF pop = <<>>
    THEN [pop |-> pop, push |-> push, panicked |-> TRUE]
    ELSE [pop |-> Tail(pop), push |-> <<Head(pop)>> \o push, panicked |-> FALSE]

new == Zipper(<<>>, <<>>, FALSE)

size(z) == Len(z.forward) + Len(z.backward)

focus(z) == IF z.forward = <<>> THEN None ELSE Head(z.forward)

reset_start(z) ==
    IF z.panicked THEN z
    ELSE LET r == reset(z.forward, z.backward)
         IN Zipper(r.nl, r.pl, FALSE)

reset_end_impl(z) ==
    IF z.panicked THEN z
    ELSE LET r == reset(z.backward, z.forward)
         IN Zipper(r.pl, r.nl, FALSE)

advance_focus(z, dir) ==
    IF z.panicked THEN z
    ELSE IF dir = Original
    THEN LET r == pop_push(z.forward, z.backward)
         IN Zipper(r.pop, r.push, r.panicked)
    ELSE LET r == pop_push(z.backward, z.forward)
         IN Zipper(r.push, r.pop, r.panicked)

\* mutant: the exhausted stack is never refilled
rotate_stacks_Never(z, dir) == z

\* mutant: Original refills one element early, when forward holds one element or none
rotate_stacks_Early(z, dir) ==
    IF z.panicked THEN z
    ELSE IF dir = Original /\ Len(z.forward) <= 1 THEN reset_start(z)
    ELSE IF dir = Reverse /\ z.backward = <<>> THEN reset_end_impl(z)
    ELSE z

rotate_stacks(z, dir) ==
    IF z.panicked THEN z
    ELSE IF dir = Original /\ z.forward = <<>> THEN reset_start(z)
    ELSE IF dir = Reverse /\ z.backward = <<>> THEN reset_end_impl(z)
    ELSE z

\* mutant: the size() == 0 early return is missing
circle_step_NoGuard(z, dir) ==
    IF z.panicked THEN z
    ELSE IF dir = Original
    THEN rotate_stacks(advance_focus(z, dir), dir)
    ELSE advance_focus(rotate_stacks(z, dir), dir)

\* mutant: Reverse advances before it rotates, as Original does
circle_step_SameOrder(z, dir) ==
    IF z.panicked \/ size(z) = 0 THEN z
    ELSE rotate_stacks(advance_focus(z, dir), dir)

\* mutant: Original rotates before it advances, as Reverse does
circle_step_RotateFirst(z, dir) ==
    IF z.panicked \/ size(z) = 0 THEN z
    ELSE advance_focus(rotate_stacks(z, dir), dir)

circle_step(z, dir) ==
    IF z.panicked \/ size(z) = 0 THEN z
    ELSE IF dir = Original
    THEN rotate_stacks(advance_focus(z, dir), dir)
    ELSE advance_focus(rotate_stacks(z, dir), dir)

\* mutant: the follow-up Reverse step is left to the caller
reset_end_NoStep(z) == reset_end_impl(z)

\* mutant: only the Reverse step is taken, as if the focus were at the start
reset_end_StepOnly(z) == circle_step(z, Reverse)

reset_end(z) == circle_step(reset_end_impl(z), Reverse)

\* p(t): the predicate is the set of values it accepts
Holds(p, t) == orig[t] \in p

\* mutant: the guard of the closure is p(t) instead of !p(t)
RECURSIVE try_fold_Inverted(_, _, _, _, _)
try_fold_Inverted(z, p, k, steps, evals) ==
    IF k = 0 THEN [z |-> z, steps |-> steps, evals |-> evals]
    ELSE LET s == circle_step(z, Original)
         IN IF s.panicked
            THEN [z |-> s, steps |-> steps + 1, evals |-> evals]
            ELSE IF focus(s) = None
            THEN [z |-> s, steps |-> steps + 1, evals |-> evals]
            ELSE IF orig[focus(s)] \in p
            THEN try_fold_Inverted(s, p, k - 1, steps + 1, Append(evals, focus(s)))
            ELSE [z |-> s, steps |-> steps + 1, evals |-> Append(evals, focus(s))]

\* the closure f of refocus applied by try_fold to the k remaining items of
\* 0..size; steps counts the circle_step calls, evals lists the elements p
\* was called on
RECURSIVE try_fold(_, _, _, _, _)
try_fold(z, p, k, steps, evals) ==
    IF k = 0 THEN [z |-> z, steps |-> steps, evals |-> evals]
    ELSE LET s == circle_step(z, Original)
         IN IF s.panicked
            THEN [z |-> s, steps |-> steps + 1, evals |-> evals]
            ELSE IF focus(s) = None
            THEN [z |-> s, steps |-> steps + 1, evals |-> evals]
            ELSE IF ~Holds(p, focus(s))
            THEN try_fold(s, p, k - 1, steps + 1, Append(evals, focus(s)))
            ELSE [z |-> s, steps |-> steps + 1, evals |-> Append(evals, focus(s))]

\* mutant: the range is 0..size - 1, one step short of a lap
refocus_ShortLap(z, p) ==
    IF z.panicked THEN [z |-> z, steps |-> 0, evals |-> <<>>]
    ELSE try_fold(z, p, IF size(z) > 0 THEN size(z) - 1 ELSE 0, 0, <<>>)

\* mutant: the range is 0..=size, one step more than a lap
refocus_ExtraLap(z, p) ==
    IF z.panicked THEN [z |-> z, steps |-> 0, evals |-> <<>>]
    ELSE try_fold(z, p, size(z) + 1, 0, <<>>)

\* mutant: the current focus is tested before the first step
refocus_CheckFirst(z, p) ==
    IF z.panicked THEN [z |-> z, steps |-> 0, evals |-> <<>>]
    ELSE IF focus(z) # None /\ Holds(p, focus(z))
    THEN [z |-> z, steps |-> 0, evals |-> <<focus(z)>>]
    ELSE try_fold(z, p, size(z), 0, <<>>)

refocus(z, p) ==
    IF z.panicked THEN [z |-> z, steps |-> 0, evals |-> <<>>]
    ELSE try_fold(z, p, size(z), 0, <<>>)

RECURSIVE fold_push_back(_, _)
fold_push_back(n, items) ==
    IF items = <<>> THEN n
    ELSE fold_push_back(push_back_and_yield(n, Head(items)), Tail(items))

\* collect(): the items are the elements of the sequence, in order
from_iter(items) == Zipper(fold_push_back(new.forward, items), new.backward, FALSE)

\* VecDeque::get, with the index counted from 0
get(d, i) == IF 0 <= i /\ i < Len(d) THEN d[i + 1] ELSE None

\* a ZipperIter: the fields count, cursor and dir, the zipper it borrows
\* (forward, backward), the items it has yielded, whether it has returned
\* None, and whether an unsigned subtraction went below zero
ZipperIter(z, cursor, dir) ==
    [live |-> TRUE, count |-> size(z), cursor |-> cursor, dir |-> dir,
     forward |-> z.forward, backward |-> z.backward,
     yielded |-> <<>>, done |-> FALSE, trap |-> FALSE]

\* no iterator: the borrow has ended
NoIter ==
    [live |-> FALSE, count |-> 0, cursor |-> 0, dir |-> Original,
     forward |-> <<>>, backward |-> <<>>,
     yielded |-> <<>>, done |-> FALSE, trap |-> FALSE]

\* mutant: the forward iterator skips the focus
iter_CursorOne(z) == ZipperIter(z, 1, Original)

\* mutant: count is one more than size()
iter_CountOver(z) == [ZipperIter(z, 0, Original) EXCEPT !.count = @ + 1]

iter(z) == ZipperIter(z, 0, Original)

\* mutant: the reverse iterator starts at cursor 0
reverse_iter_CursorZero(z) == ZipperIter(z, 0, Reverse)

reverse_iter(z) == ZipperIter(z, -1, Reverse)

\* the closure f of next: the cursor as an index
f(it, c) ==
    IF it.dir = Original THEN c
    ELSE IF c < 0 THEN c + it.count ELSE c

\* mutant: next advances the zipper it reads
deref_Step(z) == circle_step(z, Original)

\* self.zipper: next reads the borrowed zipper through a shared reference
deref(z) == z

\* mutant: past the end of nl, pl is read from its front
next_PlFront(z, it) ==
    LET nl == IF it.dir = Original THEN z.forward ELSE z.backward
        pl == IF it.dir = Original THEN z.backward ELSE z.forward
        cond == IF it.dir = Original
                THEN it.cursor < it.count
                ELSE it.cursor < it.count - 1
        i == f(it, it.cursor)
    IN IF ~cond THEN [item |-> None, cursor |-> it.cursor, trap |-> FALSE]
       ELSE IF i < Len(nl)
       THEN [item |-> get(nl, i), cursor |-> it.cursor + 1, trap |-> FALSE]
       ELSE [item |-> get(pl, i - Len(nl)), cursor |-> it.cursor + 1,
             trap |-> FALSE]

\* ZipperIter::next on the zipper z the iterator borrows: the item (None when
\* exhausted), the new cursor, and whether pl_len - (f(cursor) - nl_len + 1)
\* went below zero
next(z, it) ==
    LET nl == IF it.dir = Original THEN z.forward ELSE z.backward
        pl == IF it.dir = Original THEN z.backward ELSE z.forward
        cond == IF it.dir = Original
                THEN it.cursor < it.count
                ELSE it.cursor < it.count - 1
        nl_len == Len(nl)
        pl_len == Len(pl)
        i == f(it, it.cursor)
        sub == i - nl_len + 1
    IN IF ~cond THEN [item |-> None, cursor |-> it.cursor, trap |-> FALSE]
       ELSE IF i < nl_len
       THEN [item |-> get(nl, i), cursor |-> it.cursor + 1, trap |-> FALSE]
       ELSE IF sub > pl_len
       THEN [item |-> None, cursor |-> it.cursor + 1, trap |-> TRUE]
       ELSE [item |-> get(pl, pl_len - sub), cursor |-> it.cursor + 1,
             trap |-> FALSE]

Self == Zipper(forward, backward, panicked)

\* the two iterators a caller holds at once
Slots == {"a", "b"}

NoHistory ==
    [op |-> "none", dir |-> Original, p |-> {}, focus |-> None, run |-> 0,
     start |-> None]

\* the zipper is moved into the operation: no borrow can be alive
EndBorrows == its' = [s \in Slots |-> NoIter]

Record(op, dir, p, steps, evals) ==
    [op |-> op, dir |-> dir, p |-> p, steps |-> steps, evals |-> evals,
     forward |-> forward, backward |-> backward]

\* what `last` said before this call; run counts the consecutive circle_step
\* calls in one direction, up to one lap, and start is the focus they began at
History(op, dir) ==
    LET prev == Zipper(last.forward, last.backward, FALSE)
        continues == /\ last.op = "circle_step"
                     /\ last.dir = dir
                     /\ hist.run < size(Self)
    IN [op |-> last.op, dir |-> last.dir, p |-> last.p, focus |-> focus(prev),
        run |-> IF op # "circle_step" THEN 0
                ELSE IF continues THEN hist.run + 1 ELSE 1,
        start |-> IF op # "circle_step" THEN None
                  ELSE IF continues THEN hist.start ELSE focus(Self)]

Become(z) ==
    /\ forward' = z.forward
    /\ backward' = z.backward
    /\ panicked' = z.panicked

\* UwsmCommand::new: no arguments yet, not once
UwsmCommand_new(command) == [command |-> command, args |-> <<>>, once |-> FALSE]

\* UwsmCommand::args: the args field is the collected xs, the rest is ..self
args(c, xs) == [c EXCEPT !.args = xs]

\* UwsmCommand::arg: self.args.push(arg)
arg(c, a) == [c EXCEPT !.args = Append(@, a)]

\* UwsmCommand::once
once(c) == [c EXCEPT !.once = TRUE]

InitCmd ==
    /\ cmd = UwsmCommand_new("cmd")
    /\ cmdLast = [op |-> "new", xs |-> <<>>, args |-> <<>>]

\* the zipper is built by Zipper::new() or by collecting a sequence
Construct(op, z) ==
    /\ forward = z.forward
    /\ backward = z.backward
    /\ panicked = z.panicked
    /\ last = [op |-> op, dir |-> Original, p |-> {}, steps |-> 0,
               evals |-> <<>>, forward |-> <<>>, backward |-> <<>>]

Init ==
    /\ \/ /\ orig = <<>>
          /\ Construct("new", new)
       \/ /\ orig \in BoundedSeq(Values, MaxLen)
          /\ Construct("from_iter", from_iter([i \in 1..Len(orig) |-> i]))
    /\ hist = NoHistory
    /\ its = [s \in Slots |-> NoIter]
    /\ InitCmd

CircleStep ==
    /\ ~panicked
    /\ \E dir \in SequenceDirection :
          /\ Become(circle_step(Self, dir))
          /\ last' = Record("circle_step", dir, {}, 0, <<>>)
          /\ hist' = History("circle_step", dir)
    /\ EndBorrows
    /\ UNCHANGED <<orig, cmd, cmdLast>>

Refocus ==
    /\ ~panicked
    /\ \E p \in SUBSET Values :
          LET r == refocus(Self, p)
          IN /\ Become(r.z)
             /\ last' = Record("refocus", Original, p, r.steps, r.evals)
             /\ hist' = History("refocus", Original)
    /\ EndBorrows
    /\ UNCHANGED <<orig, cmd, cmdLast>>

ResetStart ==
    /\ ~panicked
    /\ Become(reset_start(Self))
    /\ last' = Record("reset_start", Original, {}, 0, <<>>)
    /\ hist' = History("reset_start", Original)
    /\ EndBorrows
    /\ UNCHANGED <<orig, cmd, cmdLast>>

ResetEnd ==
    /\ ~panicked
    /\ Become(reset_end(Self))
    /\ last' = Record("reset_end", Original, {}, 0, <<>>)
    /\ hist' = History("reset_end", Original)
    /\ EndBorrows
    /\ UNCHANGED <<orig, cmd, cmdLast>>

Next ==
    \/ CircleStep
    \/ Refocus
    \/ ResetStart
    \/ ResetEnd

Spec == Init /\ [][Next]_vars

\* zipper.iter(): a traversal starts; it is not a step of the ring, so the
\* run of steps recorded in hist ends
Iter ==
    /\ ~panicked
    /\ \E s \in Slots : its' = [its EXCEPT ![s] = iter(Self)]
    /\ last' = Record("iter", Original, {}, 0, <<>>)
    /\ hist' = NoHistory
    /\ UNCHANGED <<forward, backward, panicked, orig, cmd, cmdLast>>

ReverseIter ==
    /\ ~panicked
    /\ \E s \in Slots : its' = [its EXCEPT ![s] = reverse_iter(Self)]
    /\ last' = Record("reverse_iter", Reverse, {}, 0, <<>>)
    /\ hist' = NoHistory
    /\ UNCHANGED <<forward, backward, panicked, orig, cmd, cmdLast>>

\* one call of next() on a live iterator
IterNext ==
    /\ ~panicked
    /\ \E s \in Slots :
          /\ its[s].live
          /\ LET r == next(Self, its[s])
             IN its' = [its EXCEPT ![s] =
                   [@ EXCEPT !.cursor = r.cursor,
                             !.yielded = IF r.item = None THEN @
                                         ELSE Append(@, r.item),
                             !.done = @ \/ r.item = None,
                             !.trap = @ \/ r.trap]]
    /\ Become(deref(Self))
    /\ UNCHANGED <<orig, last, hist, cmd, cmdLast>>

ZipperVars == <<forward, backward, panicked, orig, last, hist, its>>

Arg ==
    /\ Len(cmd.args) < MaxArgs
    /\ \E a \in ArgValues :
          /\ cmd' = arg(cmd, a)
          /\ cmdLast' = [op |-> "arg", xs |-> <<a>>, args |-> cmd.args]
    /\ UNCHANGED ZipperVars

Args ==
    /\ \E xs \in BoundedSeq(ArgValues, MaxArgs) :
          /\ cmd' = args(cmd, xs)
          /\ cmdLast' = [op |-> "args", xs |-> xs, args |-> cmd.args]
    /\ UNCHANGED ZipperVars

Once ==
    /\ cmd' = once(cmd)
    /\ cmdLast' = [op |-> "once", xs |-> <<>>, args |-> cmd.args]
    /\ UNCHANGED ZipperVars

NextUwsm ==
    \/ Arg
    \/ Args
    \/ Once

\* the builder on its own: the zipper is the empty one throughout
InitUwsm ==
    /\ orig = <<>>
    /\ Construct("new", new)
    /\ hist = NoHistory
    /\ its = [s \in Slots |-> NoIter]
    /\ InitCmd

SpecUwsm == InitUwsm /\ [][NextUwsm]_vars

NextIter ==
    \/ Next
    \/ Iter
    \/ ReverseIter
    \/ IterNext

SpecIter == Init /\ [][NextIter]_vars

----
\* the zipper consumed by the last operation
Before == Zipper(last.forward, last.backward, FALSE)

n == Len(orig)

Acted == last.op \in {"circle_step", "refocus", "reset_start", "reset_end"}

TypeOK ==
    /\ forward \in BoundedSeq(0..MaxLen, MaxLen)
    /\ backward \in BoundedSeq(0..MaxLen, MaxLen)
    /\ panicked \in BOOLEAN
    /\ orig \in BoundedSeq(Values, MaxLen)

\* the elements p accepts
Matching(p) == {i \in 1..n : orig[i] \in p}

\* ring successor and predecessor of original index i
Succ(i) == (i % n) + 1
Pred(i) == ((i + n - 2) % n) + 1

Identity == [i \in 1..n |-> i]

Injective(s) == \A i, j \in DOMAIN s : s[i] = s[j] => i = j

\* C1: for a zipper collected from a nonempty sequence, after any sequence of
\* public operations forward is nonempty and focus() is an element of the
\* original sequence.
C1_FocusInvariant ==
    n >= 1 => /\ forward # <<>>
              /\ focus(Self) \in 1..n

C1_Witness ==
    /\ n >= 2
    /\ last.op = "circle_step" /\ last.dir = Reverse
    /\ last.backward = <<>>
    /\ focus(Self) = n

\* C2: every public operation keeps size() and the multiset of elements held
\* by the two stacks together; nothing is duplicated or dropped.
C2_Conservation ==
    /\ SeqToBag(forward \o backward) = SeqToBag(Identity)
    /\ Acted => /\ size(Self) = size(Before)
                /\ SeqToBag(forward \o backward) =
                       SeqToBag(last.forward \o last.backward)

C2_Witness ==
    /\ n >= 3
    /\ last.op = "refocus"
    /\ last.steps >= 2
    /\ backward # <<>>

\* C3: with the focus at original index i of n >= 1, circle_step(Original)
\* focuses index (i+1) mod n and circle_step(Reverse) index (i-1) mod n.
C3_RingStep ==
    (last.op = "circle_step" /\ n >= 1) =>
        /\ focus(Before) \in 1..n
        /\ focus(Self) = IF last.dir = Original
                         THEN Succ(focus(Before))
                         ELSE Pred(focus(Before))

C3_Witness ==
    /\ n >= 3
    /\ last.op = "circle_step" /\ last.dir = Original
    /\ focus(Before) = n
    /\ focus(Self) = 1

\* C4: on a zipper of size 0 every public operation returns the zipper
\* unchanged, focus() is None and nothing faults.
C4_EmptyIdentity ==
    (Acted /\ size(Before) = 0) =>
        /\ forward = <<>> /\ backward = <<>>
        /\ focus(Self) = None
        /\ ~panicked

C4_Witness ==
    /\ last.op = "reset_end"
    /\ size(Before) = 0
    /\ size(Self) = 0

\* C5: pop_push is never executed with an empty source stack in any state
\* reachable through the public operations.
C5_NoFault == ~panicked

C5_Witness ==
    /\ n >= 2
    /\ last.op = "circle_step" /\ last.dir = Original
    /\ Len(last.forward) = 1
    /\ backward = <<>>

\* C6: when exactly one element satisfies p, refocus(p) ends focused on it
\* after at most n steps, also when it was the focus already.
C6_RefocusConvergence ==
    (last.op = "refocus" /\ n >= 1 /\ Cardinality(Matching(last.p)) = 1) =>
        /\ focus(Self) \in Matching(last.p)
        /\ last.steps <= n

C6_Witness ==
    /\ n >= 3
    /\ last.op = "refocus"
    /\ Cardinality(Matching(last.p)) = 1
    /\ focus(Before) \in Matching(last.p)
    /\ focus(Before) = 2
    /\ last.steps = n

\* C7: when no element satisfies p, refocus(p) returns with the focus it
\* started from.
C7_RefocusNoMatch ==
    (last.op = "refocus" /\ Matching(last.p) = {}) =>
        focus(Self) = focus(Before)

C7_Witness ==
    /\ n >= 3
    /\ last.op = "refocus"
    /\ Matching(last.p) = {}
    /\ focus(Before) = 3
    /\ last.steps = n

\* C8: refocus(p) takes at most n steps and calls p at most n times, never
\* twice on the same element, whatever p is.
C8_RefocusOneLap ==
    last.op = "refocus" =>
        /\ last.steps <= size(Before)
        /\ Len(last.evals) <= size(Before)
        /\ Injective(last.evals)

C8_Witness ==
    /\ n >= 3
    /\ last.op = "refocus"
    /\ Len(last.evals) = n
    /\ Matching(last.p) # {}

\* C9: reset_end() alone leaves the last element of the original sequence
\* focused, with forward nonempty.
C9_ResetEnd ==
    (last.op = "reset_end" /\ n >= 1) =>
        /\ forward # <<>>
        /\ focus(Self) = n

C9_Witness ==
    /\ n >= 3
    /\ last.op = "reset_end"
    /\ Len(last.backward) = 1
    /\ forward = <<n>>

\* C10: reset_start() leaves forward holding the whole original sequence in
\* original order and backward empty, so the first element is focused (None
\* when the zipper is empty).
C10_ResetStart ==
    last.op = "reset_start" =>
        /\ forward = Identity
        /\ backward = <<>>
        /\ focus(Self) = IF n = 0 THEN None ELSE 1

C10_Witness ==
    /\ n >= 3
    /\ last.op = "reset_start"
    /\ Len(last.backward) >= 2
    /\ forward = Identity

\* C11: reset_end() after reset_end() leaves the focus the single reset_end()
\* gave, the last element; reset_start() after reset_start() likewise leaves
\* the first element focused.
C11_ResetIdempotent ==
    (last.op \in {"reset_end", "reset_start"} /\ hist.op = last.op) =>
        /\ focus(Self) = focus(Before)
        /\ n >= 1 => focus(Self) = IF last.op = "reset_end" THEN n ELSE 1

C11_Witness ==
    /\ n >= 3
    /\ last.op = "reset_end" /\ hist.op = "reset_end"
    /\ hist.focus = 2
    /\ focus(Self) = n

\* C12: n consecutive circle_step calls in one direction, Original or
\* Reverse, return the focus to the element focused before them.
C12_FullLap ==
    (n >= 1 /\ hist.run = n) => focus(Self) = hist.start

C12_Witness ==
    /\ n >= 3
    /\ last.op = "circle_step" /\ last.dir = Reverse
    /\ hist.run = n
    /\ hist.start = 2
    /\ focus(Self) = 2

\* C13: circle_step(Original) then circle_step(Reverse), or Reverse then
\* Original, restores the focus, for any size >= 1 and also across a rotation.
C13_StepInverse ==
    (/\ n >= 1
     /\ last.op = "circle_step" /\ hist.op = "circle_step"
     /\ last.dir # hist.dir) =>
        focus(Self) = hist.focus

C13_Witness ==
    /\ n >= 3
    /\ last.op = "circle_step" /\ hist.op = "circle_step"
    /\ hist.dir = Reverse /\ last.dir = Original
    /\ hist.focus = 1
    /\ focus(Before) = n
    /\ focus(Self) = 1

\* C14: collecting a sequence s gives forward = s in order and backward
\* empty, so focus() is s[0], or None when s is empty; Zipper::new() gives
\* size() == 0 and focus() == None.
C14_Construction ==
    /\ last.op = "from_iter" =>
           /\ forward = Identity
           /\ backward = <<>>
           /\ focus(Self) = IF n = 0 THEN None ELSE 1
    /\ last.op = "new" =>
           /\ size(Self) = 0
           /\ focus(Self) = None

C14_Witness ==
    /\ n >= 3
    /\ last.op = "from_iter"
    /\ orig[1] # orig[2]
    /\ focus(Self) = 1

\* the ring order from the focus onwards, and from the focus backwards
ForwardRing == [k \in 1..n |-> ((focus(Self) + k - 2) % n) + 1]
ReverseRing == [k \in 1..n |-> ((focus(Self) - k + n) % n) + 1]

IsPrefix(s, t) == Len(s) <= Len(t) /\ s = SubSeq(t, 1, Len(s))

\* C15: iter() yields exactly n items: the original elements from the focus
\* to the last, then from the first to the one before the focus.
C15_ForwardOrder ==
    \A s \in Slots :
        (its[s].live /\ its[s].dir = Original) =>
            /\ IsPrefix(its[s].yielded, ForwardRing)
            /\ its[s].done => its[s].yielded = ForwardRing

C15_Witness ==
    /\ n >= 4
    /\ focus(Self) = 3
    /\ its["a"].live /\ its["a"].dir = Original
    /\ its["a"].done
    /\ its["a"].yielded = <<3, 4, 1, 2>>

\* C16: reverse_iter() yields exactly n items: the original elements from
\* the focus down to the first, then from the last down to the one after the
\* focus; just the focus for n = 1 and nothing for n = 0.
C16_ReverseOrder ==
    \A s \in Slots :
        (its[s].live /\ its[s].dir = Reverse) =>
            /\ IsPrefix(its[s].yielded, ReverseRing)
            /\ its[s].done => its[s].yielded = ReverseRing

C16_Witness ==
    /\ n >= 4
    /\ focus(Self) = 2
    /\ its["a"].live /\ its["a"].dir = Reverse
    /\ its["a"].done
    /\ its["a"].yielded = <<2, 1, 4, 3>>

Rev(s) == [i \in 1..Len(s) |-> s[Len(s) + 1 - i]]

\* C18 as stated: forward followed by reverse(backward) is the original
\* sequence in every reachable state.
C18_AsStated == forward \o Rev(backward) = Identity

\* C18 (amended): forward followed by reverse(backward) is the original
\* sequence rotated to start at the focus; it is the original order itself
\* exactly when backward is empty.
C18_Rotation ==
    /\ forward \o Rev(backward) = ForwardRing
    /\ (forward \o Rev(backward) = Identity) <=> (backward = <<>>)

C18_Witness ==
    /\ n >= 4
    /\ last.op = "circle_step" /\ last.dir = Original
    /\ forward = <<3, 4>>
    /\ backward = <<2, 1>>

\* C19: backward holds the elements strictly before the focus, nearest
\* predecessor first, and forward holds the focus through the last element
\* in original order: reverse(backward) followed by forward is the original
\* sequence.
C19_Partition ==
    /\ Rev(backward) \o forward = Identity
    /\ n >= 1 =>
          LET i == focus(Self)
          IN /\ forward = [k \in 1..(n - i + 1) |-> i + k - 1]
             /\ backward = [k \in 1..(i - 1) |-> i - k]

C19_Witness ==
    /\ n >= 4
    /\ last.op = "circle_step" /\ last.dir = Reverse
    /\ focus(Before) = 4
    /\ focus(Self) = 3
    /\ Len(backward) = 2

\* C20: after args(xs) the argument list is every argument added earlier by
\* arg() or args(), followed by the elements of xs.
C20_ArgsAdds ==
    cmdLast.op = "args" => cmd.args = cmdLast.args \o cmdLast.xs

\* the element k places after original index i in ring order
RingAfter(i, k) == ((i + k - 1) % n) + 1

\* the first element p accepts, looking from the one after index i round to i
FirstMatchAfter(i, p) ==
    LET k == CHOOSE k \in 1..n :
                 /\ RingAfter(i, k) \in Matching(p)
                 /\ \A j \in 1..(k - 1) : RingAfter(i, j) \notin Matching(p)
    IN RingAfter(i, k)

\* C21: when some element satisfies p, refocus(p) ends on the first
\* satisfying element in ring order starting after the current focus; the
\* focus itself is examined last, so a matching focus is left for another
\* matching element, and refocus(p) twice can differ from refocus(p) once.
C21_FirstMatchAfterFocus ==
    (last.op = "refocus" /\ Matching(last.p) # {}) =>
        /\ focus(Self) = FirstMatchAfter(focus(Before), last.p)
        /\ \A k \in DOMAIN last.evals :
               last.evals[k] = RingAfter(focus(Before), k)
        /\ (focus(Before) \in Matching(last.p)
              /\ Cardinality(Matching(last.p)) >= 2) =>
               focus(Self) # focus(Before)

C21_Witness ==
    /\ n >= 4
    /\ last.op = "refocus" /\ hist.op = "refocus"
    /\ hist.p = last.p
    /\ Matching(last.p) = {1, 3}
    /\ focus(Before) = 3
    /\ focus(Self) = 1

\* whether the last circle_step took the refilling branch of rotate_stacks
Rotated ==
    /\ last.op = "circle_step"
    /\ size(Before) # 0
    /\ IF last.dir = Original
       THEN rotate_stacks(advance_focus(Before, Original), Original)
                # advance_focus(Before, Original)
       ELSE rotate_stacks(Before, Reverse) # Before

\* C22: circle_step(Original) rotates exactly when the focus was the last
\* original element, and then forward is the whole original sequence and
\* backward is empty; circle_step(Reverse) rotates exactly when the focus was
\* the first (backward empty), and then forward is the last element alone
\* and backward holds the other n-1 elements, nearest predecessor first.
C22_RotationAtBoundary ==
    (last.op = "circle_step" /\ n >= 1) =>
        IF last.dir = Original
        THEN /\ Rotated <=> focus(Before) = n
             /\ Rotated => /\ forward = Identity
                           /\ backward = <<>>
        ELSE /\ Rotated <=> focus(Before) = 1
             /\ Rotated <=> last.backward = <<>>
             /\ Rotated => /\ forward = <<n>>
                           /\ backward = [k \in 1..(n - 1) |-> n - k]

C22_Witness ==
    /\ n >= 4
    /\ last.op = "circle_step" /\ last.dir = Reverse
    /\ Rotated
    /\ forward = <<4>>
    /\ backward = <<3, 2, 1>>

\* the zipper after k calls of circle_step(dir)
RECURSIVE StepN(_, _, _)
StepN(z, dir, k) == IF k = 0 THEN z ELSE StepN(circle_step(z, dir), dir, k - 1)

\* C23: the k-th item of iter() is the focus after k calls of
\* circle_step(Original), and the k-th item of reverse_iter() is the focus
\* after k calls of circle_step(Reverse), for every k in 0..n-1.
C23_TraversalIsStepping ==
    \A s \in Slots :
        its[s].live =>
            /\ \A k \in DOMAIN its[s].yielded :
                   its[s].yielded[k] = focus(StepN(Self, its[s].dir, k - 1))
            /\ its[s].done => Len(its[s].yielded) = n

C23_Witness ==
    /\ n >= 4
    /\ focus(Self) = 2
    /\ its["b"].live /\ its["b"].dir = Reverse
    /\ its["b"].done
    /\ its["b"].yielded[3] = focus(StepN(Self, Reverse, 2))
    /\ its["b"].yielded[3] = 4

\* the cursor a fresh iterator of direction dir starts at
StartCursor(dir) == IF dir = Original THEN 0 ELSE -1

\* C24: in each of the first size() calls of next the index is in range (the
\* unsigned subtraction does not go below zero and an item is returned), and
\* every later call returns None and leaves the cursor where it is; also for
\* the empty and the single-element zipper, in both directions.
C24_IndexSafe ==
    \A s \in Slots :
        its[s].live =>
            LET it == its[s]
                calls == it.cursor - StartCursor(it.dir)
            IN /\ ~it.trap
               /\ calls \in 0..size(Self)
               /\ Len(it.yielded) = calls
               /\ it.done => calls = size(Self)
               /\ calls < size(Self) =>
                      /\ ~next(Self, it).trap
                      /\ next(Self, it).item # None
               /\ calls = size(Self) =>
                      /\ next(Self, it).item = None
                      /\ next(Self, it).cursor = it.cursor

C24_Witness ==
    /\ n = 1
    /\ its["a"].live /\ its["a"].dir = Reverse
    /\ its["a"].done
    /\ its["a"].cursor = 0
    /\ its["a"].yielded = <<1>>

====
